---- MODULE Spec2Model ----
(***************************************************************************)
(* V2X unified system (v2x_unified_complete.py): the vehicle registry      *)
(* shared by the main loop and the MQTT callback, the per-vehicle          *)
(* physics/decision policy, and the navigation route selection.            *)
(*                                                                         *)
(* Real quantities are held as integers in fixed units:                    *)
(*   time      1/TimeScale  s     (half seconds)                           *)
(*   speed     1/SpeedScale m/s   (so MAX_SPEED_MS = 250/3.6 and the       *)
(*                                 factors 0.8, 1.2, 1.5 are exact)        *)
(*   position  1/PosScale   m     (PosScale = SpeedScale * TimeScale, so   *)
(*                                 x += speed * dt needs no division)      *)
(*   visual lane 1/VisScale lane                                           *)
(***************************************************************************)
EXTENDS Integers, Sequences, FiniteSets, TLC

VARIABLES
    vehicles,          \* V2XUnifiedApp.vehicles: id -> Vehicle object (or None)
    order,             \* insertion order of the dict's keys (iteration order)
    i_own_ambulance,   \* V2XUnifiedApp.i_own_ambulance
    manual_drowsy,     \* detector.drowsy or manual_drowsy (the impairment signal)
    now,               \* time.time()
    pc_main,           \* position of the main thread in run()
    ml,                \* locals of the main thread (dt, is_drowsy, update_physics locals)
    pc_net,            \* position of the network thread in on_message
    msg,               \* payload the network thread is handling
    netv,              \* what on_message's local v refers to: "none", "live", "orphan"
    crashed,           \* an exception left the main loop
    published,         \* last payload handed to client.publish
    inputs,            \* frames, UI events and inbound messages so far
    routes,            \* NavigationSystem.routes[key]["status"]
    current_route_key, \* NavigationSystem.current_route_key
    old_route_key,     \* NavigationSystem.old_route_key
    obstacles,         \* NavigationSystem.obstacles
    destination_dist,  \* NavigationSystem.destination_dist
    is_full_screen     \* NavigationSystem.is_full_screen

regvars == <<vehicles, order, i_own_ambulance>>
mainvars == <<pc_main, ml, manual_drowsy, now, published, crashed>>
netvars == <<pc_net, msg, netv>>
navvars == <<routes, current_route_key, old_route_key, obstacles, is_full_screen>>
vars == <<vehicles, order, i_own_ambulance, manual_drowsy, now, pc_main, ml,
          pc_net, msg, netv, crashed, published, inputs,
          routes, current_route_key, old_route_key, obstacles,
          destination_dist, is_full_screen>>

----------------------------------------------------------------------------
(* Units *)
TimeScale == 1 + 1
SpeedScale == 9 * 10
PosScale == SpeedScale * TimeScale
VisScale == 10 * 10

Seconds(s) == s * TimeScale
Mps(s) == s * SpeedScale
Meters(m) == m * PosScale

(* Bounds of the exploration *)
MaxInputs == 4
MaxObstacles == 3

(* class Config *)
LANE_COUNT == 4
SERVICE_LANE_INDEX == 3
TOTAL_LENGTH == 2000
MAX_SPEED_KMH == 250
MAX_SPEED_MS == (MAX_SPEED_KMH * SpeedScale * 10) \div 36
ACCEL == 10
BRAKE == 25
LANE_CHANGE_SPEED == 2
SAFE_DIST == 200
CRITICAL_DIST == 80
AMBULANCE_DIST == 400
GHOST_TIMEOUT == 3

RoadLen == Meters(TOTAL_LENGTH)
SpeedCap == (MAX_SPEED_MS * 15) \div 10
EmergencyTarget == (MAX_SPEED_MS * 12) \div 10
Infinity == 100 * RoadLen

MyId == "CAR1"
AmbId == "AMB-1"
PeerId == "CAR2"

(* Elapsed times clock.tick() returns: 0.5 s, and a 3.5 s stall *)
DtSet == {1, 7}
(* Vehicle.__init__: x = random.randint(0, 1500), speed = random.randint(20, 30) *)
InitPositions == {Meters(0)}
InitSpeeds == {Mps(20)}

Abs(n) == IF n < 0 THEN -n ELSE n
Min(a, b) == IF a < b THEN a ELSE b
Max(a, b) == IF a > b THEN a ELSE b

----------------------------------------------------------------------------
(* Vehicle objects *)

\* What Vehicle.from_json returns from its except branch.
None ==
    [obj |-> "None", origin |-> "remote", id |-> "", is_emergency |-> FALSE,
     lane |-> 0, visual_lane |-> 0, x |-> 0, speed |-> 0,
     user_target_speed |-> 0, target_speed |-> 0,
     warning_vehicle_ahead |-> FALSE, braking |-> FALSE, drowsy_alert |-> FALSE,
     last_update |-> 0, lane_change_cooldown |-> 0]

\* Vehicle.__init__(uid, is_emergency) with its random draws x0, s0 and the
\* clock t. origin records who constructed the object ("local": the app
\* itself, "remote": from_json).
NewVehicle(uid, is_emergency, x0, s0, t, origin) ==
    LET lane0 == IF is_emergency THEN 0 ELSE 1
        spd0 == IF is_emergency THEN MAX_SPEED_MS ELSE s0
    IN  [obj |-> "Vehicle", origin |-> origin, id |-> uid,
         is_emergency |-> is_emergency,
         lane |-> lane0, visual_lane |-> lane0 * VisScale,
         x |-> IF is_emergency THEN 0 ELSE x0,
         speed |-> spd0,
         user_target_speed |-> Mps(25), target_speed |-> spd0,
         warning_vehicle_ahead |-> FALSE, braking |-> FALSE,
         drowsy_alert |-> FALSE,
         last_update |-> t, lane_change_cooldown |-> 0]

IsVehicle(v) == v.obj = "Vehicle"

----------------------------------------------------------------------------
(* Payloads on the broadcast channel.  keys is the set of keys the JSON    *)
(* object carries; json is FALSE for a payload json.loads rejects.         *)

AllKeys == {"id", "lane", "x", "spd", "emb", "col", "drw", "brk"}

Payload(keys, id, lane, x, spd, emb, drw, brk) ==
    [json |-> TRUE, keys |-> keys, id |-> id, lane |-> lane, x |-> x,
     spd |-> spd, emb |-> emb, drw |-> drw, brk |-> brk]

Garbage == [Payload({}, "", 0, 0, 0, FALSE, FALSE, FALSE) EXCEPT !.json = FALSE]

\* to_json that sends the target speed as "spd"
to_json_target(v) ==
    Payload(AllKeys, v.id, v.lane, v.x, v.target_speed, v.is_emergency,
            v.drowsy_alert, v.braking)

\* Vehicle.to_json
to_json(v) ==
    Payload(AllKeys, v.id, v.lane, v.x, v.speed, v.is_emergency,
            v.drowsy_alert, v.braking)

\* d.get(key, False)
GetFlag(p, key, value) == IF key \in p.keys THEN value ELSE FALSE

\* Vehicle.from_json(payload) at time t; s0 is the constructor's random speed
from_json(p, x0, s0, t) ==
    IF p.json /\ {"id", "emb", "lane", "x", "spd", "col"} \subseteq p.keys
    THEN [NewVehicle(p.id, p.emb, x0, s0, t, "remote") EXCEPT
             !.lane = p.lane,
             !.x = p.x,
             !.speed = p.spd,
             !.drowsy_alert = GetFlag(p, "drw", p.drw),
             !.braking = GetFlag(p, "brk", p.brk),
             !.visual_lane = p.lane * VisScale,
             !.last_update = t]
    ELSE None

\* the keys of a payload that carries id, lane, position, speed and the
\* emergency flag and nothing else
RecordKeys == {"id", "lane", "x", "spd", "emb"}

FirstBroadcast ==
    Payload(AllKeys, PeerId, 1, Meters(150), Mps(20), FALSE, FALSE, FALSE)

\* The payloads a peer (or anybody else on the public broker) may publish.
InboundPayloads ==
    { Payload(AllKeys, PeerId, 1, Meters(150), Mps(20), FALSE, FALSE, FALSE),
      Payload(AllKeys \ {"drw", "brk"}, PeerId, 1, Meters(50), Mps(30), FALSE, FALSE, FALSE),
      Payload(RecordKeys, PeerId, 1, Meters(50), Mps(30), FALSE, FALSE, FALSE),
      Payload(AllKeys, PeerId, LANE_COUNT, Meters(150), Mps(200), TRUE, TRUE, TRUE),
      Payload(AllKeys \ {"lane"}, PeerId, 0, Meters(500), Mps(10), FALSE, FALSE, FALSE),
      Payload(AllKeys, AmbId, 1, Meters(1950), Mps(60), TRUE, FALSE, FALSE),
      Payload(AllKeys, MyId, 2, Meters(700), Mps(5), FALSE, FALSE, FALSE),
      Garbage }

----------------------------------------------------------------------------
(* Vehicle.update_physics, lines 493-559: the decision policy and the      *)
(* kinematics, from the perception results L of the loop at 470-491.       *)

\* Behaviour with the ambulance-yield test ahead of the drowsiness test
BehaviourYieldFirst(v, L, is_me_drowsy) ==
    IF L.ambulance_behind /\ ~v.is_emergency /\ v.lane_change_cooldown <= 0
    THEN IF v.lane < LANE_COUNT - 1
         THEN [v EXCEPT !.lane = @ + 1, !.lane_change_cooldown = Seconds(2)]
         ELSE IF v.lane > 0
         THEN [v EXCEPT !.lane = @ - 1, !.lane_change_cooldown = Seconds(2)]
         ELSE v
    ELSE IF is_me_drowsy
    THEN LET d == [v EXCEPT !.drowsy_alert = TRUE]
         IN  IF d.lane # SERVICE_LANE_INDEX
             THEN IF d.lane_change_cooldown <= 0
                  THEN [d EXCEPT !.lane = @ + 1,
                                 !.lane_change_cooldown = Seconds(1)]
                  ELSE d
             ELSE [d EXCEPT !.target_speed = 0, !.braking = TRUE]
    ELSE [v EXCEPT !.target_speed = v.user_target_speed]

\* Behaviour yielding to the right whatever the lane
BehaviourYieldRight(v, L, is_me_drowsy) ==
    IF is_me_drowsy
    THEN LET d == [v EXCEPT !.drowsy_alert = TRUE]
         IN  IF d.lane # SERVICE_LANE_INDEX
             THEN IF d.lane_change_cooldown <= 0
                  THEN [d EXCEPT !.lane = @ + 1,
                                 !.lane_change_cooldown = Seconds(1)]
                  ELSE d
             ELSE [d EXCEPT !.target_speed = 0, !.braking = TRUE]
    ELSE IF L.ambulance_behind /\ ~v.is_emergency /\ v.lane_change_cooldown <= 0
    THEN [v EXCEPT !.lane = @ + 1, !.lane_change_cooldown = Seconds(2)]
    ELSE IF v.is_emergency
    THEN [v EXCEPT !.target_speed = EmergencyTarget]
    ELSE IF L.dist_to_ahead < Meters(CRITICAL_DIST)
    THEN [v EXCEPT !.target_speed = 0,
                   !.warning_vehicle_ahead = TRUE,
                   !.braking = TRUE]
    ELSE IF L.dist_to_ahead < Meters(SAFE_DIST)
    THEN [v EXCEPT !.target_speed = IF L.speed_known
                                    THEN (L.speed_of_car_ahead * 8) \div 10
                                    ELSE Mps(10),
                   !.braking = TRUE,
                   !.warning_vehicle_ahead =
                       (v.speed > (IF L.speed_known THEN L.speed_of_car_ahead ELSE 0))]
    ELSE [v EXCEPT !.target_speed = v.user_target_speed]

\* Behaviour with the collision test ahead of the emergency test
BehaviourCollisionFirst(v, L, is_me_drowsy) ==
    IF is_me_drowsy
    THEN LET d == [v EXCEPT !.drowsy_alert = TRUE]
         IN  IF d.lane # SERVICE_LANE_INDEX
             THEN IF d.lane_change_cooldown <= 0
                  THEN [d EXCEPT !.lane = @ + 1,
                                 !.lane_change_cooldown = Seconds(1)]
                  ELSE d
             ELSE [d EXCEPT !.target_speed = 0, !.braking = TRUE]
    ELSE IF L.ambulance_behind /\ ~v.is_emergency /\ v.lane_change_cooldown <= 0
    THEN IF v.lane < LANE_COUNT - 1
         THEN [v EXCEPT !.lane = @ + 1, !.lane_change_cooldown = Seconds(2)]
         ELSE IF v.lane > 0
         THEN [v EXCEPT !.lane = @ - 1, !.lane_change_cooldown = Seconds(2)]
         ELSE v
    ELSE IF L.dist_to_ahead < Meters(CRITICAL_DIST)
    THEN [v EXCEPT !.target_speed = 0,
                   !.warning_vehicle_ahead = TRUE,
                   !.braking = TRUE]
    ELSE IF v.is_emergency
    THEN [v EXCEPT !.target_speed = EmergencyTarget]
    ELSE IF L.dist_to_ahead < Meters(SAFE_DIST)
    THEN [v EXCEPT !.target_speed = IF L.speed_known
                                    THEN (L.speed_of_car_ahead * 8) \div 10
                                    ELSE Mps(10),
                   !.braking = TRUE,
                   !.warning_vehicle_ahead =
                       (v.speed > (IF L.speed_known THEN L.speed_of_car_ahead ELSE 0))]
    ELSE [v EXCEPT !.target_speed = v.user_target_speed]

\* lines 500-545: the if/elif chain, on the vehicle after lines 494-496
Behaviour(v, L, is_me_drowsy) ==
    IF is_me_drowsy
    THEN LET d == [v EXCEPT !.drowsy_alert = TRUE]
         IN  IF d.lane # SERVICE_LANE_INDEX
             THEN IF d.lane_change_cooldown <= 0
                  THEN [d EXCEPT !.lane = @ + 1,
                                 !.lane_change_cooldown = Seconds(1)]
                  ELSE d
             ELSE [d EXCEPT !.target_speed = 0, !.braking = TRUE]
    ELSE IF L.ambulance_behind /\ ~v.is_emergency /\ v.lane_change_cooldown <= 0
    THEN IF v.lane < LANE_COUNT - 1
         THEN [v EXCEPT !.lane = @ + 1, !.lane_change_cooldown = Seconds(2)]
         ELSE IF v.lane > 0
         THEN [v EXCEPT !.lane = @ - 1, !.lane_change_cooldown = Seconds(2)]
         ELSE v
    ELSE IF v.is_emergency
    THEN [v EXCEPT !.target_speed = EmergencyTarget]
    ELSE IF L.dist_to_ahead < Meters(CRITICAL_DIST)
    THEN [v EXCEPT !.target_speed = 0,
                   !.warning_vehicle_ahead = TRUE,
                   !.braking = TRUE]
    ELSE IF L.dist_to_ahead < Meters(SAFE_DIST)
    THEN [v EXCEPT !.target_speed = IF L.speed_known
                                    THEN (L.speed_of_car_ahead * 8) \div 10
                                    ELSE Mps(10),
                   !.braking = TRUE,
                   !.warning_vehicle_ahead =
                       (v.speed > (IF L.speed_known THEN L.speed_of_car_ahead ELSE 0))]
    ELSE [v EXCEPT !.target_speed = v.user_target_speed]

\* Kinematics with the position taken modulo the road length
KinematicsModulo(v, dt) ==
    LET s1 == IF v.speed < v.target_speed
              THEN v.speed + (ACCEL * SpeedScale * dt) \div TimeScale
              ELSE IF v.speed > v.target_speed
              THEN v.speed - (BRAKE * SpeedScale * dt) \div TimeScale
              ELSE v.speed
        s2 == Max(0, Min(s1, SpeedCap))
        x1 == v.x + s2 * dt
    IN  [v EXCEPT !.speed = s2,
                  !.x = x1 % RoadLen]

\* lines 547-559
Kinematics(v, dt) ==
    LET s1 == IF v.speed < v.target_speed
              THEN v.speed + (ACCEL * SpeedScale * dt) \div TimeScale
              ELSE IF v.speed > v.target_speed
              THEN v.speed - (BRAKE * SpeedScale * dt) \div TimeScale
              ELSE v.speed
        s2 == Max(0, Min(s1, SpeedCap))
        x1 == v.x + s2 * dt
    IN  [v EXCEPT !.speed = s2,
                  !.x = IF x1 > RoadLen THEN 0 ELSE x1]

\* Decide that clears drowsy_alert with the other two flags at lines 494-495
DecideUnlatched(v, dt, L, is_me_drowsy) ==
    LET v0 == [v EXCEPT !.warning_vehicle_ahead = FALSE,
                        !.braking = FALSE,
                        !.drowsy_alert = FALSE,
                        !.lane_change_cooldown = @ - dt]
    IN  Kinematics(Behaviour(v0, L, is_me_drowsy), dt)

\* lines 493-559
Decide(v, dt, L, is_me_drowsy) ==
    LET v0 == [v EXCEPT !.warning_vehicle_ahead = FALSE,
                        !.braking = FALSE,
                        !.lane_change_cooldown = @ - dt]
    IN  Kinematics(Behaviour(v0, L, is_me_drowsy), dt)

\* update_visuals that also moves the vehicle on by speed * dt
update_visuals_reckon(v, dt) ==
    LET target == v.lane * VisScale
        diff == target - v.visual_lane
        moved == v.visual_lane
                   + (IF diff > 0 THEN 1 ELSE -1)
                     * ((LANE_CHANGE_SPEED * VisScale * dt) \div TimeScale)
    IN  IF Abs(diff) * 100 > VisScale
        THEN [v EXCEPT !.x = (@ + v.speed * dt) % RoadLen, !.visual_lane =
                 IF Abs(target - moved) * 100 < 5 * VisScale THEN target ELSE moved]
        ELSE [v EXCEPT !.x = (@ + v.speed * dt) % RoadLen, !.visual_lane = target]

\* Vehicle.update_visuals
update_visuals(v, dt) ==
    LET target == v.lane * VisScale
        diff == target - v.visual_lane
        moved == v.visual_lane
                   + (IF diff > 0 THEN 1 ELSE -1)
                     * ((LANE_CHANGE_SPEED * VisScale * dt) \div TimeScale)
    IN  IF Abs(diff) * 100 > VisScale
        THEN [v EXCEPT !.visual_lane =
                 IF Abs(target - moved) * 100 < 5 * VisScale THEN target ELSE moved]
        ELSE [v EXCEPT !.visual_lane = target]

----------------------------------------------------------------------------
(* Registry helpers *)

Ids == DOMAIN vehicles

\* self.vehicles[id] = v
Put(reg, id, v) == [k \in (DOMAIN reg) \cup {id} |-> IF k = id THEN v ELSE reg[k]]
PutOrder(ord, reg, id) == IF id \in DOMAIN reg THEN ord ELSE Append(ord, id)

\* del self.vehicles[vid] for every vid in gone
Drop(reg, gone) == [k \in (DOMAIN reg) \ gone |-> reg[k]]
DropOrder(ord, gone) == SelectSeq(ord, LAMBDA k : k \notin gone)

\* locals of the main thread outside update_physics
MlIdle ==
    [dt |-> 0, is_drowsy |-> FALSE,
     self |-> "", selfDetached |-> FALSE, selfSnap |-> None,
     i |-> 0, used |-> 0,
     other |-> "", otherDetached |-> FALSE, otherSnap |-> None,
     d_ahead |-> 0, d_behind |-> 0,
     dist_to_ahead |-> Infinity, speed_known |-> FALSE,
     speed_of_car_ahead |-> 0, ambulance_behind |-> FALSE]

\* the object update_physics runs on, and the object its loop variable holds
Self == IF ml.selfDetached THEN ml.selfSnap ELSE vehicles[ml.self]
Other == IF ml.otherDetached THEN ml.otherSnap ELSE vehicles[ml.other]

InLoopBody == pc_main \in {"l476", "l477", "l484", "l487", "l490"}
InPhysics == pc_main \in {"l471", "l476", "l477", "l484", "l487", "l490", "l493", "l943"}

----------------------------------------------------------------------------
(* The network thread: V2XUnifiedApp.on_message, one step per statement    *)
(* that reads or writes the registry.  Every exception ends the callback   *)
(* (except: pass).                                                         *)

NetDone == /\ pc_net' = "idle"
           /\ msg' = Garbage
           /\ netv' = "none"

\* NetRecv without the own-id test of line 725
NetRecvAnyId(p) ==
    /\ ~crashed /\ pc_net = "idle" /\ inputs < MaxInputs
    /\ inputs' = inputs + 1
    /\ IF p.json /\ "id" \in p.keys
          /\ ~(p.id = AmbId /\ i_own_ambulance)
       THEN pc_net' = "l730" /\ msg' = p /\ netv' = "none"
       ELSE NetDone
    /\ UNCHANGED <<regvars, mainvars, navvars, destination_dist>>

\* lines 723-728: decode, json.loads, the own-id test, the owned-ambulance test
NetRecv(p) ==
    /\ ~crashed /\ pc_net = "idle" /\ inputs < MaxInputs
    /\ inputs' = inputs + 1
    /\ IF p.json /\ "id" \in p.keys /\ p.id # MyId
          /\ ~(p.id = AmbId /\ i_own_ambulance)
       THEN pc_net' = "l730" /\ msg' = p /\ netv' = "none"
       ELSE NetDone
    /\ UNCHANGED <<regvars, mainvars, navvars, destination_dist>>

\* line 730: if d['id'] not in self.vehicles
NetCheck ==
    /\ ~crashed /\ pc_net = "l730"
    /\ pc_net' = IF msg.id \notin Ids THEN "l731" ELSE "l733"
    /\ UNCHANGED <<msg, netv, regvars, mainvars, navvars, destination_dist>>
    /\ UNCHANGED inputs

\* line 731: self.vehicles[d['id']] = Vehicle.from_json(payload).  An entry
\* that appeared since line 730 is replaced; a reference the main thread
\* holds to the replaced object keeps reading (and writing) the old object.
NetInsert ==
    /\ ~crashed /\ pc_net = "l731"
    /\ \E s0 \in InitSpeeds :
         vehicles' = Put(vehicles, msg.id, from_json(msg, 0, s0, now))
    /\ order' = PutOrder(order, vehicles, msg.id)
    /\ ml' = IF msg.id \in Ids
             THEN [ml EXCEPT
                     !.otherDetached = @ \/ (InLoopBody /\ ml.other = msg.id),
                     !.otherSnap = IF InLoopBody /\ ml.other = msg.id /\ ~ml.otherDetached
                                   THEN vehicles[msg.id] ELSE @,
                     !.selfDetached = @ \/ (InPhysics /\ ml.self = msg.id),
                     !.selfSnap = IF InPhysics /\ ml.self = msg.id /\ ~ml.selfDetached
                                  THEN vehicles[msg.id] ELSE @]
             ELSE ml
    /\ NetDone
    /\ UNCHANGED <<i_own_ambulance, pc_main, manual_drowsy, now, published, crashed, navvars, destination_dist>>
    /\ UNCHANGED inputs

\* one assignment v.<field> = d[key] of lines 734-737: a missing key, or v
\* being None, raises and ends the callback with the earlier writes done
NetAssign(at, next, key, updated) ==
    /\ ~crashed /\ pc_net = at
    /\ IF key \in msg.keys
       THEN /\ pc_net' = next
            /\ vehicles' = IF netv = "live"
                           THEN [vehicles EXCEPT ![msg.id] = updated]
                           ELSE vehicles
            /\ UNCHANGED <<msg, netv>>
       ELSE NetDone /\ UNCHANGED vehicles
    /\ UNCHANGED <<order, i_own_ambulance, mainvars, navvars, destination_dist>>
    /\ UNCHANGED inputs

\* lines 733-734: v = self.vehicles[d['id']]; v.x = d['x']
NetSetX ==
    /\ ~crashed /\ pc_net = "l733"
    /\ IF msg.id \in Ids /\ IsVehicle(vehicles[msg.id]) /\ "x" \in msg.keys
       THEN /\ vehicles' = [vehicles EXCEPT ![msg.id].x = msg.x]
            /\ netv' = "live"
            /\ pc_net' = "l735"
            /\ UNCHANGED msg
       ELSE NetDone /\ UNCHANGED vehicles
    /\ UNCHANGED <<order, i_own_ambulance, mainvars, navvars, destination_dist>>
    /\ UNCHANGED inputs

\* line 735
NetSetLane ==
    NetAssign("l735", "l736", "lane", [vehicles[msg.id] EXCEPT !.lane = msg.lane])

\* line 736
NetSetSpeed ==
    NetAssign("l736", "l737", "spd", [vehicles[msg.id] EXCEPT !.speed = msg.spd])

\* line 737
NetSetEmergency ==
    NetAssign("l737", "l738", "emb", [vehicles[msg.id] EXCEPT !.is_emergency = msg.emb])

\* lines 738-740
NetSetRest ==
    /\ ~crashed /\ pc_net = "l738"
    /\ vehicles' = IF netv = "live"
                   THEN [vehicles EXCEPT ![msg.id] =
                           [@ EXCEPT !.drowsy_alert = GetFlag(msg, "drw", msg.drw),
                                     !.braking = GetFlag(msg, "brk", msg.brk),
                                     !.last_update = now]]
                   ELSE vehicles
    /\ NetDone
    /\ UNCHANGED <<order, i_own_ambulance, mainvars, navvars, destination_dist>>
    /\ UNCHANGED inputs

on_message ==
    \/ \E p \in InboundPayloads : NetRecv(p)
    \/ NetCheck
    \/ NetInsert
    \/ NetSetX
    \/ NetSetLane
    \/ NetSetSpeed
    \/ NetSetEmergency
    \/ NetSetRest

----------------------------------------------------------------------------
(* The main thread: V2XUnifiedApp.run and the handlers it calls.           *)

NavTotal == 5000
TOTAL_DIST == Meters(NavTotal)

\* an exception propagates out of run()
Crash ==
    /\ crashed' = TRUE
    /\ UNCHANGED <<pc_main, ml, regvars, published>>

MainFrame == UNCHANGED <<netvars, navvars>>

\* line 893: dt = self.clock.tick(Config.FPS) / 1000.0
LoopTop(dt) ==
    /\ ~crashed /\ pc_main = "top" /\ inputs < MaxInputs
    /\ inputs' = inputs + 1
    /\ now' = now + dt
    /\ ml' = [MlIdle EXCEPT !.dt = dt]
    /\ pc_main' = "events"
    /\ MainFrame
    /\ UNCHANGED <<regvars, manual_drowsy, published, crashed, destination_dist>>

UiEvent == ~crashed /\ pc_main = "events" /\ inputs < MaxInputs /\ ~is_full_screen

\* V2XUnifiedApp.change_lane(direction), the "< Left" and "Right >" buttons
change_lane(direction) ==
    /\ UiEvent
    /\ inputs' = inputs + 1
    /\ LET new_lane == vehicles[MyId].lane + direction
       IN  vehicles' = IF 0 <= new_lane /\ new_lane < LANE_COUNT
                       THEN [vehicles EXCEPT ![MyId].lane = new_lane]
                       ELSE vehicles
    /\ MainFrame
    /\ UNCHANGED <<order, i_own_ambulance, pc_main, ml, manual_drowsy, now, published, crashed, destination_dist>>

\* V2XUnifiedApp.chg_speed(delta), the "Slower" and "Faster" buttons
chg_speed(delta) ==
    /\ UiEvent
    /\ inputs' = inputs + 1
    /\ vehicles' = [vehicles EXCEPT ![MyId].user_target_speed =
                       Max(0, Min(@ + Mps(delta), MAX_SPEED_MS))]
    /\ MainFrame
    /\ UNCHANGED <<order, i_own_ambulance, pc_main, ml, manual_drowsy, now, published, crashed, destination_dist>>

\* lines 901-903 (K_x) and DrowsinessDetector._detection_loop lines 111, 114
ToggleDrowsy ==
    /\ UiEvent
    /\ inputs' = inputs + 1
    /\ manual_drowsy' = ~manual_drowsy
    /\ MainFrame
    /\ UNCHANGED <<regvars, pc_main, ml, now, published, crashed,
                   destination_dist>>

\* spawn_ambulance_click, line 714
SpawnCheck ==
    /\ UiEvent
    /\ inputs' = inputs + 1
    /\ pc_main' = IF AmbId \notin Ids THEN "l715" ELSE "events"
    /\ MainFrame
    /\ UNCHANGED <<regvars, ml, manual_drowsy, now, published, crashed,
                   destination_dist>>

\* spawn_ambulance_click, lines 715-716
SpawnInsert ==
    /\ ~crashed /\ pc_main = "l715"
    /\ vehicles' = Put(vehicles, AmbId, NewVehicle(AmbId, TRUE, 0, 0, now, "local"))
    /\ order' = PutOrder(order, vehicles, AmbId)
    /\ netv' = IF AmbId \in Ids /\ netv = "live" /\ msg.id = AmbId
               THEN "orphan" ELSE netv
    /\ pc_main' = "l717"
    /\ UNCHANGED <<i_own_ambulance, ml, manual_drowsy, now, published,
                   crashed, pc_net, msg, navvars, destination_dist>>
    /\ UNCHANGED inputs

\* spawn_ambulance_click, line 717
SpawnOwn ==
    /\ ~crashed /\ pc_main = "l717"
    /\ i_own_ambulance' = TRUE
    /\ pc_main' = "events"
    /\ MainFrame
    /\ UNCHANGED <<vehicles, order, ml, manual_drowsy, now, published,
                   crashed, destination_dist>>
    /\ UNCHANGED inputs

\* update_physics entered for vehicle id: lines 466-468 and the iterator of
\* the for statement at 471
EnterPhysics(id, is_me_drowsy) ==
    [MlIdle EXCEPT !.dt = ml.dt, !.is_drowsy = is_me_drowsy, !.self = id,
                   !.i = 1, !.used = Len(order)]

\* lines 928-931: is_drowsy is sampled, update_physics(my_vehicle) begins
BeginPhysics ==
    /\ ~crashed /\ pc_main = "events"
    /\ ml' = EnterPhysics(MyId, manual_drowsy)
    /\ pc_main' = "l471"
    /\ MainFrame
    /\ UNCHANGED <<regvars, manual_drowsy, now, published, crashed,
                   destination_dist>>
    /\ UNCHANGED inputs

\* lines 471-473: the iterator's next().  A dict that changed size since the
\* loop began raises RuntimeError; other.id on a None entry raises
\* AttributeError.
PNext ==
    /\ ~crashed /\ pc_main = "l471"
    /\ IF Len(order) # ml.used
       THEN Crash
       ELSE IF ml.i > Len(order)
       THEN /\ pc_main' = "l493"
            /\ UNCHANGED <<ml, regvars, published, crashed>>
       ELSE IF ~IsVehicle(vehicles[order[ml.i]])
       THEN Crash
       ELSE /\ ml' = [ml EXCEPT !.i = @ + 1,
                                !.other = IF order[ml.i] = ml.self THEN "" ELSE order[ml.i]]
            /\ pc_main' = IF order[ml.i] = ml.self THEN "l471" ELSE "l476"
            /\ UNCHANGED <<regvars, published, crashed>>
    /\ MainFrame
    /\ UNCHANGED <<manual_drowsy, now, destination_dist>>
    /\ UNCHANGED inputs

PStep(at) ==
    /\ ~crashed /\ pc_main = at
    /\ MainFrame
    /\ UNCHANGED <<regvars, manual_drowsy, now, published, crashed,
                   destination_dist>>
    /\ UNCHANGED inputs

\* lines 476, 478-479
P476 ==
    /\ PStep("l476")
    /\ LET d == Other.x - Self.x
       IN  ml' = [ml EXCEPT !.d_ahead = IF d < 0 THEN d + RoadLen ELSE d]
    /\ pc_main' = "l477"

\* lines 477, 480-481
P477 ==
    /\ PStep("l477")
    /\ LET d == Self.x - Other.x
       IN  ml' = [ml EXCEPT !.d_behind = IF d < 0 THEN d + RoadLen ELSE d]
    /\ pc_main' = "l484"

\* the loop body is left: the loop variable and the distances are dead
EndBody(L) ==
    [L EXCEPT !.other = "", !.otherDetached = FALSE, !.otherSnap = None,
              !.d_ahead = 0, !.d_behind = 0]

\* P484 without the comparison at line 485: the last vehicle in the lane
\* is taken as the one ahead
P484Last ==
    /\ PStep("l484")
    /\ IF Other.lane = Self.lane
       THEN /\ ml' = [ml EXCEPT !.dist_to_ahead = ml.d_ahead]
            /\ pc_main' = "l487"
       ELSE /\ ml' = EndBody(ml)
            /\ pc_main' = "l471"

\* lines 484-486
P484 ==
    /\ PStep("l484")
    /\ IF Other.lane = Self.lane
       THEN IF ml.d_ahead < ml.dist_to_ahead
            THEN /\ ml' = [ml EXCEPT !.dist_to_ahead = ml.d_ahead]
                 /\ pc_main' = "l487"
            ELSE /\ ml' = ml
                 /\ pc_main' = "l490"
       ELSE /\ ml' = EndBody(ml)
            /\ pc_main' = "l471"

\* line 487
P487 ==
    /\ PStep("l487")
    /\ ml' = [ml EXCEPT !.speed_known = TRUE, !.speed_of_car_ahead = Other.speed]
    /\ pc_main' = "l490"

\* lines 490-491
P490 ==
    /\ PStep("l490")
    /\ ml' = EndBody([ml EXCEPT !.ambulance_behind =
                        @ \/ (Other.is_emergency /\ ml.d_behind < Meters(AMBULANCE_DIST))])
    /\ pc_main' = "l471"

\* lines 493-559 on the vehicle update_physics was called on; a vehicle whose
\* registry entry was replaced meanwhile is updated outside the registry
PDecide ==
    /\ ~crashed /\ pc_main = "l493"
    /\ LET n == Decide(Self, ml.dt, ml, ml.is_drowsy)
       IN  IF ml.selfDetached
           THEN /\ ml' = [ml EXCEPT !.selfSnap = n]
                /\ UNCHANGED vehicles
           ELSE /\ ml' = ml
                /\ vehicles' = [vehicles EXCEPT ![ml.self] = n]
    /\ pc_main' = IF ml.self = MyId THEN "l934" ELSE "l943"
    /\ MainFrame
    /\ UNCHANGED <<order, i_own_ambulance, manual_drowsy, now,
                   published, crashed, destination_dist>>
    /\ UNCHANGED inputs

HasNone == \E k \in Ids : ~IsVehicle(vehicles[k])

\* lines 934-937: v.drowsy_alert of every entry
AnyDrowsy ==
    /\ ~crashed /\ pc_main = "l934"
    /\ IF HasNone
       THEN Crash
       ELSE /\ pc_main' = "l940"
            /\ ml' = [MlIdle EXCEPT !.dt = ml.dt]
            /\ UNCHANGED <<regvars, published, crashed>>
    /\ MainFrame
    /\ UNCHANGED <<manual_drowsy, now, destination_dist>>
    /\ UNCHANGED inputs

\* lines 940-942: the owned ambulance's update_physics begins
AmbBegin ==
    /\ ~crashed /\ pc_main = "l940"
    /\ IF i_own_ambulance /\ AmbId \in Ids
       THEN IF IsVehicle(vehicles[AmbId])
            THEN /\ ml' = EnterPhysics(AmbId, FALSE)
                 /\ pc_main' = "l471"
                 /\ UNCHANGED <<regvars, published, crashed>>
            ELSE Crash
       ELSE /\ pc_main' = "l946"
            /\ UNCHANGED <<ml, regvars, published, crashed>>
    /\ MainFrame
    /\ UNCHANGED <<manual_drowsy, now, destination_dist>>
    /\ UNCHANGED inputs

\* line 943: self.client.publish(TOPIC_VEHICLE, amb.to_json())
AmbPublish ==
    /\ ~crashed /\ pc_main = "l943"
    /\ published' = to_json(Self)
    /\ ml' = [MlIdle EXCEPT !.dt = ml.dt]
    /\ pc_main' = "l946"
    /\ MainFrame
    /\ UNCHANGED <<regvars, manual_drowsy, now, crashed,
                   destination_dist>>
    /\ UNCHANGED inputs

\* lines 946-947
UpdateVisuals ==
    /\ ~crashed /\ pc_main = "l946"
    /\ IF HasNone
       THEN Crash
       ELSE /\ vehicles' = [k \in Ids |-> update_visuals(vehicles[k], ml.dt)]
            /\ pc_main' = "l950"
            /\ UNCHANGED <<order, i_own_ambulance, ml, published, crashed>>
    /\ MainFrame
    /\ UNCHANGED <<manual_drowsy, now, destination_dist>>
    /\ UNCHANGED inputs

\* line 950: self.client.publish(TOPIC_VEHICLE, self.my_vehicle.to_json())
Broadcast ==
    /\ ~crashed /\ pc_main = "l950"
    /\ published' = to_json(vehicles[MyId])
    /\ pc_main' = "l953"
    /\ MainFrame
    /\ UNCHANGED <<regvars, ml, manual_drowsy, now, crashed,
                   destination_dist>>
    /\ UNCHANGED inputs

\* NavUpdateDist with the wrap test d < 0 in place of d <= 0
NavUpdateDistStrict(dist, dt, speed) ==
    LET d == dist - speed * dt
    IN  IF d < 0 THEN TOTAL_DIST ELSE d

\* NavigationSystem.update(dt, my_vehicle), lines 268-272
NavUpdateDist(dist, dt, speed) ==
    LET d == dist - speed * dt
    IN  IF d <= 0 THEN TOTAL_DIST ELSE d

\* line 953
NavUpdate ==
    /\ ~crashed /\ pc_main = "l953"
    /\ destination_dist' = NavUpdateDist(destination_dist, ml.dt, vehicles[MyId].speed)
    /\ pc_main' = "l956"
    /\ MainFrame
    /\ UNCHANGED <<regvars, ml, manual_drowsy, now, published, crashed>>
    /\ UNCHANGED inputs

\* cleanup_ghosts, lines 746-751: the ids it will delete
Ghosts(reg, own, t) ==
    LET stale == {vid \in DOMAIN reg :
                     vid # MyId /\ t - reg[vid].last_update > Seconds(GHOST_TIMEOUT)}
    IN  IF own /\ AmbId \in stale THEN stale \ {AmbId} ELSE stale

\* line 956: cleanup_ghosts().  v.last_update on a None entry raises
\* AttributeError.
cleanup_ghosts ==
    /\ ~crashed /\ pc_main = "l956"
    /\ IF \E k \in Ids : k # MyId /\ ~IsVehicle(vehicles[k])
       THEN Crash /\ UNCHANGED netv
       ELSE LET gone == Ghosts(vehicles, i_own_ambulance, now)
            IN  /\ vehicles' = Drop(vehicles, gone)
                /\ order' = DropOrder(order, gone)
                /\ netv' = IF netv = "live" /\ msg.id \in gone THEN "orphan" ELSE netv
                /\ pc_main' = "top"
                /\ ml' = MlIdle
                /\ UNCHANGED <<i_own_ambulance, published, crashed>>
    /\ UNCHANGED <<pc_net, msg, navvars, manual_drowsy, now, destination_dist>>
    /\ UNCHANGED inputs

Tick ==
    \/ \E dt \in DtSet : LoopTop(dt)
    \/ BeginPhysics
    \/ PNext \/ P476 \/ P477 \/ P484 \/ P487 \/ P490 \/ PDecide
    \/ AnyDrowsy \/ AmbBegin \/ AmbPublish
    \/ UpdateVisuals \/ Broadcast \/ NavUpdate \/ cleanup_ghosts

Ui ==
    \/ \E direction \in {-1, 1} : change_lane(direction)
    \/ \E delta \in {-5, 5} : chg_speed(delta)
    \/ ToggleDrowsy
    \/ SpawnCheck \/ SpawnInsert \/ SpawnOwn

----------------------------------------------------------------------------
(* NavigationSystem *)

NoRoute == "None"
\* lines 172-190: the polylines, in screen pixels
RoutePoints ==
    [main |-> << <<150, 700>>, <<700, 450>>, <<1250, 200>> >>,
     top |-> << <<150, 700>>, <<400, 350>>, <<700, 180>>, <<1000, 180>>, <<1250, 200>> >>,
     bottom |-> << <<150, 700>>, <<450, 750>>, <<900, 680>>, <<1250, 200>> >>]

CLICK_RADIUS == 20

\* _dist_to_segment(p, v, w) < click_radius, in exact arithmetic: the
\* distance to the nearer end when the projection falls outside the segment,
\* else |cross| / sqrt(l2).  46340 * 46340 is the largest square below 2^31,
\* and r2 * l2 is far below it, so a larger |cross| is never near.
NearSegment(p, v, w) ==
    LET dx == w[1] - v[1]
        dy == w[2] - v[2]
        l2 == dx * dx + dy * dy
        dot == (p[1] - v[1]) * dx + (p[2] - v[2]) * dy
        cross == (p[1] - v[1]) * dy - (p[2] - v[2]) * dx
        r2 == CLICK_RADIUS * CLICK_RADIUS
        Sq(a, b) == a * a + b * b
    IN  IF l2 = 0 \/ dot <= 0
        THEN Sq(p[1] - v[1], p[2] - v[2]) < r2
        ELSE IF dot >= l2
        THEN Sq(p[1] - w[1], p[2] - w[2]) < r2
        ELSE Abs(cross) <= 46340 /\ cross * cross < r2 * l2

\* lines 237-246: the first route, in dict order, with a segment near pos
NearRoute(key, pos) ==
    \E i \in 1..(Len(RoutePoints[key]) - 1) :
        NearSegment(pos, RoutePoints[key][i], RoutePoints[key][i + 1])

ClickedRoute(pos) ==
    IF NearRoute("main", pos) THEN "main"
    ELSE IF NearRoute("top", pos) THEN "top"
    ELSE IF NearRoute("bottom", pos) THEN "bottom"
    ELSE NoRoute

\* BestKey with north tried before south
BestKeyTopFirst(r) ==
    IF r["main"] # "blocked" THEN "main"
    ELSE IF r["top"] # "blocked" THEN "top"
    ELSE IF r["bottom"] # "blocked" THEN "bottom"
    ELSE NoRoute

\* select_best_route, lines 207-215
BestKey(r) ==
    IF r["main"] # "blocked" THEN "main"
    ELSE IF r["bottom"] # "blocked" THEN "bottom"
    ELSE IF r["top"] # "blocked" THEN "top"
    ELSE NoRoute

\* select_best_route with the statuses written before current_route_key is
\* assigned (line 226 ahead of line 221)
select_best_route_stale(r, cur, old) ==
    LET new_key == BestKey(r)
    IN  [routes |-> [k \in DOMAIN r |->
                        IF r[k] # "blocked"
                        THEN (IF k = cur THEN "active" ELSE "idle")
                        ELSE r[k]],
         current_route_key |-> new_key,
         old_route_key |-> IF new_key # cur THEN cur ELSE old]

\* select_best_route that reopens every route when none is left (the test at
\* line 225 dropped when new_key is None)
select_best_route_reopen(r, cur, old) ==
    LET new_key == BestKey(r)
    IN  [routes |-> [k \in DOMAIN r |->
                        IF r[k] # "blocked" \/ new_key = NoRoute
                        THEN (IF k = new_key THEN "active" ELSE "idle")
                        ELSE r[k]],
         current_route_key |-> new_key,
         old_route_key |-> IF new_key # cur THEN cur ELSE old]

\* select_best_route that records the previous key whether or not the key
\* changes (the test at line 218 dropped)
select_best_route_always(r, cur, old) ==
    LET new_key == BestKey(r)
    IN  [routes |-> [k \in DOMAIN r |->
                        IF r[k] # "blocked"
                        THEN (IF k = new_key THEN "active" ELSE "idle")
                        ELSE r[k]],
         current_route_key |-> new_key,
         old_route_key |-> cur]

\* select_best_route on statuses r with current key cur and old key old
select_best_route(r, cur, old) ==
    LET new_key == BestKey(r)
    IN  [routes |-> [k \in DOMAIN r |->
                        IF r[k] # "blocked"
                        THEN (IF k = new_key THEN "active" ELSE "idle")
                        ELSE r[k]],
         current_route_key |-> new_key,
         old_route_key |-> IF new_key # cur THEN cur ELSE old]

NavFrame == UNCHANGED <<regvars, mainvars, netvars>>

\* toggle_view
toggle_view ==
    /\ is_full_screen' = ~is_full_screen
    /\ NavFrame
    /\ UNCHANGED <<routes, current_route_key, old_route_key, obstacles,
                   destination_dist, inputs>>

\* reset_obstacles, reached through btn_reset in the map view (lines 907-910)
reset_obstacles ==
    /\ is_full_screen
    /\ LET sel == select_best_route([k \in DOMAIN routes |-> "idle"],
                                    current_route_key, NoRoute)
       IN  /\ routes' = sel.routes
           /\ current_route_key' = sel.current_route_key
           /\ old_route_key' = sel.old_route_key
    /\ obstacles' = <<>>
    /\ NavFrame
    /\ UNCHANGED <<is_full_screen, destination_dist, inputs>>

\* handle_map_click that records the point whether or not a route is near
handle_map_click_record(pos) ==
    /\ Len(obstacles) < MaxObstacles
    /\ IF is_full_screen
       THEN LET hit == ClickedRoute(pos)
                sel == select_best_route(
                           IF hit # NoRoute
                           THEN [routes EXCEPT ![hit] = "blocked"]
                           ELSE routes,
                           current_route_key, old_route_key)
            IN  /\ obstacles' = Append(obstacles, pos)
                /\ routes' = sel.routes
                /\ current_route_key' = sel.current_route_key
                /\ old_route_key' = sel.old_route_key
       ELSE UNCHANGED <<obstacles, routes, current_route_key, old_route_key>>
    /\ NavFrame
    /\ UNCHANGED <<is_full_screen, destination_dist, inputs>>

\* handle_map_click(pos)
handle_map_click(pos) ==
    /\ Len(obstacles) < MaxObstacles
    /\ IF is_full_screen /\ ClickedRoute(pos) # NoRoute
       THEN LET sel == select_best_route(
                           [routes EXCEPT ![ClickedRoute(pos)] = "blocked"],
                           current_route_key, old_route_key)
            IN  /\ obstacles' = Append(obstacles, pos)
                /\ routes' = sel.routes
                /\ current_route_key' = sel.current_route_key
                /\ old_route_key' = sel.old_route_key
       ELSE UNCHANGED <<obstacles, routes, current_route_key, old_route_key>>
    /\ NavFrame
    /\ UNCHANGED <<is_full_screen, destination_dist, inputs>>

\* update(dt, my_vehicle) for a vehicle moving at speed
nav_update(dt, speed) ==
    /\ inputs < MaxInputs
    /\ inputs' = inputs + 1
    /\ destination_dist' = NavUpdateDist(destination_dist, dt, speed)
    /\ NavFrame
    /\ UNCHANGED navvars

\* where the obstacle-input surface reports points: on each route, on the
\* shared first and last waypoint, and away from every route
ClickPoints ==
    { <<700, 450>>, <<850, 180>>, <<450, 750>>, <<150, 700>>, <<1250, 200>>,
      <<100, 100>> }
NavSpeeds == {0, Mps(25), SpeedCap}
NavStartDists == {TOTAL_DIST, Meters(50)}

NavStart ==
    /\ routes = [k \in {"main", "top", "bottom"} |->
                    IF k = "main" THEN "active" ELSE "idle"]
    /\ current_route_key = "main"
    /\ old_route_key = NoRoute
    /\ obstacles = <<>>
    /\ is_full_screen = FALSE

\* NavigationSystem.__init__, lines 164-195
NavInit ==
    /\ NavStart
    /\ destination_dist = TOTAL_DIST

\* V2XUnifiedApp.__init__, lines 636-639; a peer's first broadcast may
\* already have been applied before the loop starts
Init ==
    /\ \E x0 \in InitPositions, s0 \in InitSpeeds, peers \in SUBSET {PeerId} :
          /\ vehicles = [k \in {MyId} \cup peers |->
                           IF k = MyId
                           THEN NewVehicle(MyId, FALSE, x0, s0, 0, "local")
                           ELSE from_json(FirstBroadcast, 0, s0, 0)]
          /\ order = IF peers = {} THEN <<MyId>> ELSE <<MyId, PeerId>>
    /\ i_own_ambulance = FALSE
    /\ manual_drowsy = FALSE
    /\ now = 0
    /\ pc_main = "top"
    /\ ml = MlIdle
    /\ pc_net = "idle"
    /\ msg = Garbage
    /\ netv = "none"
    /\ crashed = FALSE
    /\ published = Garbage
    /\ inputs = 0
    /\ NavInit

Next == Tick \/ Ui \/ on_message

Spec == Init /\ [][Next]_vars

(* The navigation system on its own: the map view's inputs and update()    *)
(* with the distance already travelled drawn from NavStartDists.           *)
AppIdle ==
    /\ vehicles = [k \in {MyId} |-> NewVehicle(MyId, FALSE, 0, Mps(25), 0, "local")]
    /\ order = <<MyId>>
    /\ i_own_ambulance = FALSE
    /\ manual_drowsy = FALSE
    /\ now = 0
    /\ pc_main = "top"
    /\ ml = MlIdle
    /\ pc_net = "idle"
    /\ msg = Garbage
    /\ netv = "none"
    /\ crashed = FALSE
    /\ published = Garbage
    /\ inputs = 0

NavSpecInit ==
    /\ AppIdle
    /\ NavStart
    /\ destination_dist \in NavStartDists

NavNext ==
    \/ toggle_view
    \/ reset_obstacles
    \/ \E pos \in ClickPoints : handle_map_click(pos)
    \/ \E dt \in DtSet, speed \in NavSpeeds : nav_update(dt, speed)

NavSpec == NavSpecInit /\ [][NavNext]_vars

(* The main loop on its own, from registries it can hold some frames in:   *)
(* the local vehicle cruising at 25 m/s (at its start; 12.5 m before the   *)
(* end of the road, where 159 frames of 0.5 s take it from x = 0; or at    *)
(* x = TOTAL_LENGTH, where the 160th leaves it, line 558 testing x >       *)
(* TOTAL_LENGTH), in lane 1 or in the service lane, with or without a      *)
(* running lane-change cooldown; a peer CAR2 and a peer CAR3 as their last *)
(* broadcasts left them; an owned ambulance as spawn_ambulance_click       *)
(* constructs it.                                                          *)
Peer2Id == "CAR3"

DriveMine ==
    { [NewVehicle(MyId, FALSE, x, Mps(25), 0, "local") EXCEPT
          !.lane = l, !.visual_lane = l * VisScale, !.lane_change_cooldown = c] :
      x \in {0, RoadLen - 25 * SpeedScale, RoadLen}, l \in {1, SERVICE_LANE_INDEX},
      c \in {0, Seconds(1)} }

DrivePeers ==
    { from_json(Payload(AllKeys, PeerId, l, Meters(x), Mps(s), e, FALSE, FALSE),
                0, Mps(20), 0) :
      l \in {0, 1, SERVICE_LANE_INDEX}, x \in {0, 50, 150, 350, 1950},
      s \in {20, 30}, e \in BOOLEAN }

DrivePeer2 ==
    from_json(Payload(AllKeys, Peer2Id, 1, Meters(180), Mps(30), FALSE, FALSE, FALSE),
              0, Mps(20), 0)

DriveInit ==
    /\ \E mine \in DriveMine, peer \in DrivePeers \cup {None},
          present \in SUBSET {Peer2Id, AmbId} :
          LET ids == {MyId} \cup present \cup (IF peer = None THEN {} ELSE {PeerId})
          IN  /\ vehicles = [k \in ids |->
                               IF k = MyId THEN mine
                               ELSE IF k = PeerId THEN peer
                               ELSE IF k = Peer2Id THEN DrivePeer2
                               ELSE NewVehicle(AmbId, TRUE, 0, 0, 0, "local")]
              /\ order = SelectSeq(<<MyId, PeerId, Peer2Id, AmbId>>,
                                   LAMBDA k : k \in ids)
              /\ i_own_ambulance = (AmbId \in present)
    /\ manual_drowsy \in BOOLEAN
    /\ now = 0
    /\ pc_main = "top"
    /\ ml = MlIdle
    /\ pc_net = "idle"
    /\ msg = Garbage
    /\ netv = "none"
    /\ crashed = FALSE
    /\ published = Garbage
    /\ inputs = 0
    /\ NavInit

DriveSpec == DriveInit /\ [][Tick]_vars

----------------------------------------------------------------------------
(* Whole frames and whole callbacks: run()'s update logic (lines 925-956)  *)
(* and on_message applied one after the other, for as long as the clock    *)
(* is below MaxSeconds.                                                    *)

MaxSeconds == 20

\* lines 466-491: the perception loop of update_physics over the registry
\* reg in iteration order ord, from entry i on, with the locals L so far
RECURSIVE PerceiveFrom(_, _, _, _, _)
PerceiveFrom(self, reg, ord, i, L) ==
    IF i > Len(ord) THEN L
    ELSE LET other == reg[ord[i]]
             da == other.x - self.x
             db == self.x - other.x
             d_ahead == IF da < 0 THEN da + RoadLen ELSE da
             d_behind == IF db < 0 THEN db + RoadLen ELSE db
             nearer == d_ahead < L.dist_to_ahead
         IN  IF other.id = self.id \/ other.lane # self.lane
             THEN PerceiveFrom(self, reg, ord, i + 1, L)
             ELSE PerceiveFrom(self, reg, ord, i + 1,
                     [L EXCEPT
                        !.dist_to_ahead = IF nearer THEN d_ahead ELSE @,
                        !.speed_known = @ \/ nearer,
                        !.speed_of_car_ahead = IF nearer THEN other.speed ELSE @,
                        !.ambulance_behind =
                            @ \/ (other.is_emergency
                                    /\ d_behind < Meters(AMBULANCE_DIST))])

\* update_physics(dt, all_vehicles, is_me_drowsy) on the entry id of reg
PhysicsOn(reg, ord, id, dt, is_me_drowsy) ==
    [reg EXCEPT ![id] =
        Decide(reg[id], dt, PerceiveFrom(reg[id], reg, ord, 1, MlIdle), is_me_drowsy)]

\* lines 928-956 in one step.  A None entry raises AttributeError in the
\* first loop over the registry (line 472) and the exception leaves run().
run_frame(dt) ==
    /\ ~crashed /\ pc_main = "top" /\ pc_net = "idle"
    /\ now < Seconds(MaxSeconds)
    /\ IF HasNone
       THEN /\ crashed' = TRUE
            /\ UNCHANGED <<vehicles, order, now, published, destination_dist>>
       ELSE \E mine \in {PhysicsOn(vehicles, order, MyId, dt, manual_drowsy)} :
            \E both \in {IF i_own_ambulance /\ AmbId \in Ids
                         THEN PhysicsOn(mine, order, AmbId, dt, FALSE)
                         ELSE mine} :
            \E drawn \in {[k \in Ids |-> update_visuals(both[k], dt)]} :
            LET gone == Ghosts(drawn, i_own_ambulance, now + dt)
            IN  /\ vehicles' = Drop(drawn, gone)
                /\ order' = DropOrder(order, gone)
                /\ published' = to_json(drawn[MyId])
                /\ destination_dist' =
                       NavUpdateDist(destination_dist, dt, drawn[MyId].speed)
                /\ now' = now + dt
                /\ UNCHANGED crashed
    /\ UNCHANGED <<i_own_ambulance, manual_drowsy, pc_main, ml, netvars,
                   navvars, inputs>>

\* lines 733-740 on the entry v: the assignments in order, up to the first
\* key the payload lacks (KeyError) or not at all when v is None
ApplyUpdate(v, p, t) ==
    LET v1 == [v EXCEPT !.x = p.x]
        v2 == [v1 EXCEPT !.lane = p.lane]
        v3 == [v2 EXCEPT !.speed = p.spd]
        v4 == [v3 EXCEPT !.is_emergency = p.emb]
    IN  IF ~IsVehicle(v) \/ "x" \notin p.keys THEN v
        ELSE IF "lane" \notin p.keys THEN v1
        ELSE IF "spd" \notin p.keys THEN v2
        ELSE IF "emb" \notin p.keys THEN v3
        ELSE [v4 EXCEPT !.drowsy_alert = GetFlag(p, "drw", p.drw),
                        !.braking = GetFlag(p, "brk", p.brk),
                        !.last_update = t]

\* on_message for payload p in one step
deliver(p) ==
    /\ ~crashed /\ pc_main = "top" /\ pc_net = "idle"
    /\ inputs < MaxInputs
    /\ inputs' = inputs + 1
    /\ IF p.json /\ "id" \in p.keys /\ p.id # MyId
          /\ ~(p.id = AmbId /\ i_own_ambulance)
       THEN IF p.id \notin Ids
            THEN /\ \E s0 \in InitSpeeds :
                      vehicles' = Put(vehicles, p.id, from_json(p, 0, s0, now))
                 /\ order' = PutOrder(order, vehicles, p.id)
            ELSE /\ vehicles' = [vehicles EXCEPT
                                    ![p.id] = ApplyUpdate(@, p, now)]
                 /\ UNCHANGED order
       ELSE UNCHANGED <<vehicles, order>>
    /\ UNCHANGED <<i_own_ambulance, mainvars, netvars, navvars,
                   destination_dist>>

\* the driver is impaired from the first frame on; the local vehicle cruises
\* in lane 0, in lane 1 or in the service lane, with or without a running
\* cooldown; CAR2 is known or not
LiveMine ==
    { [NewVehicle(MyId, FALSE, 0, Mps(25), 0, "local") EXCEPT
          !.lane = l, !.visual_lane = l * VisScale, !.lane_change_cooldown = c] :
      l \in {0, 1, SERVICE_LANE_INDEX}, c \in {0, Seconds(1)} }

LiveInit ==
    /\ \E mine \in LiveMine, peers \in SUBSET {PeerId} :
          /\ vehicles = [k \in {MyId} \cup peers |->
                           IF k = MyId THEN mine
                           ELSE from_json(FirstBroadcast, 0, Mps(20), 0)]
          /\ order = IF peers = {} THEN <<MyId>> ELSE <<MyId, PeerId>>
    /\ i_own_ambulance = FALSE
    /\ manual_drowsy = TRUE
    /\ now = 0
    /\ pc_main = "top"
    /\ ml = MlIdle
    /\ pc_net = "idle"
    /\ msg = Garbage
    /\ netv = "none"
    /\ crashed = FALSE
    /\ published = Garbage
    /\ inputs = 0
    /\ NavInit

Frames == \E dt \in DtSet : run_frame(dt)

\* what CAR2 publishes while the local driver is impaired: a complete
\* record, and one that lacks the lane
LivePayloads ==
    { FirstBroadcast,
      Payload(AllKeys \ {"lane"}, PeerId, 0, Meters(500), Mps(10), FALSE, FALSE, FALSE) }

Deliveries == \E p \in LivePayloads : deliver(p)

LiveNext ==
    \/ Frames
    \/ Deliveries

\* the loop `while running` keeps taking frames
LiveSpec == LiveInit /\ [][LiveNext]_vars /\ WF_vars(Frames)

----------------------------------------------------------------------------
(* Properties *)

PerceptionLoop == {"l471", "l476", "l477", "l484", "l487", "l490"}

\* what update_physics reads of another vehicle
Perceived(v) == <<v.obj, v.x, v.lane, v.speed, v.is_emergency>>

\* C1: once the local process owns AMB-1 (it constructed the entry), no step
\* of on_message replaces the AMB-1 entry or changes its position, lane,
\* speed or is_emergency.
C1_OwnedAmbulanceUntouched ==
    [][(on_message /\ i_own_ambulance /\ AmbId \in Ids
          /\ vehicles[AmbId].origin = "local")
        => (/\ AmbId \in DOMAIN vehicles'
            /\ vehicles'[AmbId].origin = "local"
            /\ Perceived(vehicles'[AmbId]) = Perceived(vehicles[AmbId]))]_vars

\* C2: while update_physics is inside its perception loop (lines 471-491),
\* no step of on_message inserts a registry entry or changes a field the
\* loop reads, so all values read in one call come from one registry state.
C2_PerceptionSeesOneRegistry ==
    [][(on_message /\ pc_main \in PerceptionLoop)
        => (/\ DOMAIN vehicles' = DOMAIN vehicles
            /\ \A k \in Ids : Perceived(vehicles'[k]) = Perceived(vehicles[k]))]_vars

\* json.loads fails, or one of lane, x, spd, emb is missing
Malformed(p) == ~p.json \/ ~({"lane", "x", "spd", "emb"} \subseteq p.keys)

\* C3: handling a malformed payload leaves the registry unchanged: no entry
\* is added and no field of an existing entry is modified.
C3_MalformedPayloadDropped ==
    [][(on_message /\ pc_net # "idle" /\ Malformed(msg))
        => vehicles' = vehicles]_vars

\* C4: every vehicle in the registry has 0 <= lane < LANE_COUNT.
C4_LaneInRange ==
    \A k \in Ids :
        IsVehicle(vehicles[k])
          => (0 <= vehicles[k].lane /\ vehicles[k].lane < LANE_COUNT)

\* C5: every vehicle in the registry has 0 <= speed <= 1.5 * MAX_SPEED_MS.
C5_SpeedInRange ==
    \A k \in Ids :
        IsVehicle(vehicles[k])
          => (0 <= vehicles[k].speed /\ vehicles[k].speed <= SpeedCap)

\* the step that runs lines 493-559 for the local vehicle
DecideMine == pc_main = "l493" /\ ml.self = MyId /\ pc_main' = "l934"

\* C6: on a tick where the local vehicle is impaired and an emergency vehicle
\* is within AMBULANCE_DIST behind it in its lane, the impaired rule applies
\* and the yield rule does not: the lane is never decremented, the cooldown
\* is never set to 2.0, and a lane change is one lane toward the service
\* lane with the cooldown reset to 1.0.
C6_ImpairedBeforeYield ==
    [][(DecideMine /\ ml.is_drowsy /\ ml.ambulance_behind)
        => LET a == vehicles[MyId]
               b == vehicles'[MyId]
           IN  /\ b.drowsy_alert
               /\ b.lane >= a.lane
               /\ b.lane = a.lane
                    => b.lane_change_cooldown = a.lane_change_cooldown - ml.dt
               /\ b.lane # a.lane
                    => /\ b.lane = a.lane + 1
                       /\ a.lane < SERVICE_LANE_INDEX
                       /\ b.lane_change_cooldown = Seconds(1)]_vars

\* C6 witness: update_physics has just run for the impaired local vehicle
\* with an ambulance perceived behind it, and it moved one lane over.
C6_Witness ==
    /\ pc_main = "l934"
    /\ ml.is_drowsy /\ ml.ambulance_behind
    /\ vehicles[MyId].lane = 2
    /\ vehicles[MyId].lane_change_cooldown = Seconds(1)

\* the step that runs cleanup_ghosts (to its end or to an exception)
EvictionPass == pc_main = "l956" /\ ~crashed /\ (pc_main' = "top" \/ crashed')

Stale(v, t) == t - v.last_update > Seconds(GHOST_TIMEOUT)

\* C7: an eviction pass removes exactly the entries that are not the local
\* vehicle, not an owned AMB-1, and older than GHOST_TIMEOUT; every other
\* entry is still present after it.
C7_EvictionExact ==
    [][EvictionPass
        => \A k \in Ids :
              IsVehicle(vehicles[k])
                => ((k \notin DOMAIN vehicles')
                      <=> (/\ k # MyId
                           /\ ~(i_own_ambulance /\ k = AmbId)
                           /\ Stale(vehicles[k], now)))]_vars

Blocked(k) == routes[k] = "blocked"

\* C8: the selected route is the first non-blocked route in the order main,
\* bottom (south), top (north), and the no-route value when all are blocked.
C8_RoutePriority ==
    /\ ~Blocked("main") => current_route_key = "main"
    /\ (Blocked("main") /\ ~Blocked("bottom")) => current_route_key = "bottom"
    /\ (Blocked("main") /\ Blocked("bottom") /\ ~Blocked("top"))
          => current_route_key = "top"
    /\ (Blocked("main") /\ Blocked("bottom") /\ Blocked("top"))
          => current_route_key = NoRoute

\* C8 witness: two obstacle reports in, main and south are blocked and north
\* is selected.
C8_Witness ==
    /\ Blocked("main") /\ Blocked("bottom") /\ ~Blocked("top")
    /\ current_route_key = "top"
    /\ Len(obstacles) >= 2

\* C9: after reset_obstacles, from any navigation state, the obstacle list is
\* empty, no route is blocked, main is active and old_route_key is cleared.
C9_ResetClearsAll ==
    [][reset_obstacles
        => (/\ obstacles' = <<>>
            /\ \A k \in DOMAIN routes : routes'[k] # "blocked"
            /\ routes'["main"] = "active"
            /\ current_route_key' = "main"
            /\ old_route_key' = NoRoute)]_vars

ActiveRoutes == {k \in DOMAIN routes : routes[k] = "active"}

\* C10: at most one route is active; exactly one is active whenever some
\* route is not blocked; a route is active iff its key is current_route_key.
C10_OneActiveRoute ==
    /\ Cardinality(ActiveRoutes) <= 1
    /\ (\E k \in DOMAIN routes : ~Blocked(k)) => Cardinality(ActiveRoutes) = 1
    /\ \A k \in DOMAIN routes : routes[k] = "active" <=> k = current_route_key

\* C10 witness: an obstacle on main moved the active route to south.
C10_Witness ==
    /\ Blocked("main")
    /\ routes["bottom"] = "active"
    /\ current_route_key = "bottom"
    /\ obstacles # <<>>

\* C11: a route's status becomes blocked only in a handle_map_click step
\* whose point is within the click radius of that route (and is recorded as
\* an obstacle), and a blocked route stays blocked through every obstacle
\* report, re-selection and distance update: only reset_obstacles unblocks.
C11_BlockedUntilReset ==
    [][\A k \in DOMAIN routes :
          /\ (~Blocked(k) /\ routes'[k] = "blocked")
                => \E pos \in ClickPoints :
                      /\ handle_map_click(pos)
                      /\ NearRoute(k, pos)
                      /\ obstacles' = Append(obstacles, pos)
          /\ (Blocked(k) /\ routes'[k] # "blocked") => reset_obstacles]_vars

\* C11 witness: north was blocked by an obstacle report and is still blocked
\* after two more reports and a distance update.
C11_Witness ==
    /\ Blocked("top") /\ routes["main"] = "active"
    /\ Len(obstacles) = 3
    /\ inputs > 0

\* C12: when the main loop publishes the local vehicle's state (line 950),
\* the eviction pass of that iteration has already run: no entry that the
\* pass removes (not the local vehicle, not an owned AMB-1, older than
\* GHOST_TIMEOUT) is in the registry.
C12_EvictionBeforeBroadcast ==
    [][Broadcast
        => \A k \in Ids :
              (IsVehicle(vehicles[k]) /\ k # MyId /\ ~(i_own_ambulance /\ k = AmbId))
                 => ~Stale(vehicles[k], now)]_vars

\* the vehicles this process simulates: the local vehicle and an owned AMB-1
Simulated(k) ==
    k = MyId \/ (k = AmbId /\ i_own_ambulance /\ vehicles[k].origin = "local")

\* C13: every locally simulated vehicle has 0 <= x < TOTAL_LENGTH; x is never
\* equal to the road length.
C13_PositionInRange ==
    \A k \in Ids :
        (IsVehicle(vehicles[k]) /\ Simulated(k))
           => (0 <= vehicles[k].x /\ vehicles[k].x < RoadLen)

\* the step that runs lines 493-559 for a vehicle held in the registry
DecideStep == pc_main = "l493" /\ pc_main' # "l493" /\ ~ml.selfDetached

\* C14: in every update_physics of a simulated vehicle, with the speed taken
\* after the kinematics update: the new x is exactly 0 when x + speed * dt
\* exceeds the road length, and x + speed * dt otherwise.
C14_WrapToZero ==
    [][DecideStep
        => LET a == vehicles[ml.self]
               b == vehicles'[ml.self]
               moved == a.x + b.speed * ml.dt
           IN  b.x = IF moved > RoadLen THEN 0 ELSE moved]_vars

\* C14 witness: update_physics has just taken the moving local vehicle past
\* the end of the road, and it is at 0.
C14_Witness ==
    /\ pc_main = "l934"
    /\ vehicles[MyId].x = 0
    /\ vehicles[MyId].speed = Mps(25)
    /\ ml.dt = 7

\* the other vehicles in the lane of vehicle k
SameLane(k) ==
    {o \in Ids \ {k} : IsVehicle(vehicles[o]) /\ vehicles[o].lane = vehicles[k].lane}

\* circular distances between registry entries, as the specification has them
DAhead(k, o) == (vehicles[o].x - vehicles[k].x) % RoadLen
DBehind(k, o) == (vehicles[k].x - vehicles[o].x) % RoadLen

AmbulanceBehind(k) ==
    \E o \in SameLane(k) :
        vehicles[o].is_emergency /\ DBehind(k, o) < Meters(AMBULANCE_DIST)

\* C15: a non-impaired, non-emergency local vehicle whose cooldown is <= 0
\* after this tick's decrement changes lane in that tick if and only if some
\* emergency vehicle in its lane has circular backward distance
\* (self.x - other.x) mod TOTAL_LENGTH below AMBULANCE_DIST.
C15_YieldIffAmbulanceBehind ==
    [][(DecideMine /\ ~ml.is_drowsy /\ ~vehicles[MyId].is_emergency
          /\ vehicles[MyId].lane_change_cooldown - ml.dt <= 0)
        => ((vehicles'[MyId].lane # vehicles[MyId].lane) <=> AmbulanceBehind(MyId))]_vars

\* the nearest vehicles ahead of k in its lane
NearestAhead(k) ==
    {o \in SameLane(k) : \A p \in SameLane(k) : DAhead(k, o) <= DAhead(k, p)}

\* C16: on a tick of the local vehicle where it is not impaired, the yield
\* rule does not apply, it is not an emergency vehicle and the least circular
\* forward distance to a vehicle in its lane is in [CRITICAL_DIST, SAFE_DIST):
\* target_speed becomes 0.8 times the speed of that nearest vehicle, braking
\* becomes true, and warning_vehicle_ahead is true exactly when the vehicle's
\* own speed (before the tick) exceeds that vehicle's speed.
C16_SafeFollowing ==
    [][(/\ DecideMine /\ ~ml.is_drowsy /\ ~vehicles[MyId].is_emergency
        /\ ~(AmbulanceBehind(MyId) /\ vehicles[MyId].lane_change_cooldown - ml.dt <= 0)
        /\ \E o \in NearestAhead(MyId) :
              /\ Meters(CRITICAL_DIST) <= DAhead(MyId, o)
              /\ DAhead(MyId, o) < Meters(SAFE_DIST))
        => \E o \in NearestAhead(MyId) :
              /\ 10 * vehicles'[MyId].target_speed = 8 * vehicles[o].speed
              /\ vehicles'[MyId].braking
              /\ vehicles'[MyId].warning_vehicle_ahead
                    <=> (vehicles[MyId].speed > vehicles[o].speed)]_vars

\* C16 witness: the local vehicle at 0 with speed 25 has just run
\* update_physics behind CAR2 at 150 with speed 20, the nearer of two vehicles
\* in its lane: target speed 16, braking, warning.
C16_Witness ==
    /\ pc_main = "l934"
    /\ {PeerId, Peer2Id} \subseteq Ids
    /\ vehicles[PeerId].x = Meters(150) /\ vehicles[PeerId].speed = Mps(20)
    /\ vehicles[Peer2Id].lane = vehicles[PeerId].lane
    /\ vehicles[MyId].lane = vehicles[PeerId].lane
    /\ vehicles[MyId].target_speed = Mps(16)
    /\ vehicles[MyId].braking /\ vehicles[MyId].warning_vehicle_ahead

\* a payload with id, lane, position, speed and emergency flag that omits the
\* drowsy flag, the braking flag or both
FlagsOmitted(p) ==
    p.json /\ RecordKeys \subseteq p.keys /\ ~({"drw", "brk"} \subseteq p.keys)

\* C17: a payload that carries id, lane, x, spd and emb but omits drw and/or
\* brk is accepted for an unseen id and for a known id: the insertion at line
\* 731 stores a vehicle with the payload's lane, x and speed, the update at
\* lines 734-740 leaves the known entry with them, and an omitted flag is
\* false in the entry.
C17_OptionalFlagsDefault ==
    [][(on_message /\ FlagsOmitted(msg)
          /\ (pc_net = "l731" \/ (pc_net = "l738" /\ netv = "live")))
        => LET v == vehicles'[msg.id]
           IN  /\ IsVehicle(v)
               /\ v.lane = msg.lane /\ v.x = msg.x /\ v.speed = msg.spd
               /\ "drw" \notin msg.keys => ~v.drowsy_alert
               /\ "brk" \notin msg.keys => ~v.braking]_vars

\* no segment of any route is within the click radius of pos
FarFromRoutes(pos) == \A k \in DOMAIN RoutePoints : ~NearRoute(k, pos)

\* C18: handle_map_click with a point that is within the click radius of no
\* segment of any route changes nothing: obstacles, every route status,
\* current_route_key and old_route_key are as before.
C18_FarClickIsNoOp ==
    [][\A pos \in ClickPoints :
          (handle_map_click(pos) /\ FarFromRoutes(pos))
             => UNCHANGED <<obstacles, routes, current_route_key, old_route_key>>]_vars

\* C18 witness: the map view is open with an obstacle on main and south
\* active, and a point far from every route is among the points clicked.
C18_Witness ==
    /\ is_full_screen
    /\ Blocked("main") /\ current_route_key = "bottom" /\ old_route_key = "main"
    /\ Len(obstacles) = 1
    /\ \E pos \in ClickPoints : FarFromRoutes(pos)

\* C19: every vehicle's lane_change_cooldown is >= 0.
C19_CooldownNonNegative ==
    \A k \in Ids :
        IsVehicle(vehicles[k]) => vehicles[k].lane_change_cooldown >= 0

\* C20: the is_emergency flag of a registry entry never changes while the
\* entry exists (steps that construct the entry, lines 716 and 731, aside).
C20_EmergencyFlagImmutable ==
    [][(pc_net # "l731" /\ pc_main # "l715")
        => \A k \in Ids \cap DOMAIN vehicles' :
              (IsVehicle(vehicles[k]) /\ IsVehicle(vehicles'[k]))
                 => vehicles'[k].is_emergency = vehicles[k].is_emergency]_vars

\* a step of on_message that handles a payload carrying the local vehicle's id
OwnIdMessageStep ==
    \/ \E p \in InboundPayloads : NetRecv(p) /\ p.json /\ "id" \in p.keys /\ p.id = MyId
    \/ on_message /\ pc_net # "idle" /\ msg.id = MyId

\* C21: no step of on_message that handles a payload whose id is the local
\* vehicle's id changes the registry: the local entry and every other entry
\* are as before.
C21_OwnIdMessageIgnored ==
    [][OwnIdMessageStep => UNCHANGED <<vehicles, order>>]_vars

\* C21 witness: the local vehicle has moved and the network thread is ready
\* to receive the payload that carries its id with another position and lane.
C21_Witness ==
    /\ pc_net = "idle" /\ ~crashed /\ inputs < MaxInputs
    /\ vehicles[MyId].x > 0
    /\ \E p \in InboundPayloads :
          /\ p.json /\ p.id = MyId
          /\ p.x # vehicles[MyId].x /\ p.lane # vehicles[MyId].lane

\* C22: after every update(dt, my_vehicle) with speed >= 0 the remaining
\* distance is in (0, total_dist]: the update subtracts speed * dt and, when
\* the result is <= 0, sets the distance to exactly total_dist.
C22_DistanceWraps ==
    [][\A dt \in DtSet, speed \in NavSpeeds :
          (nav_update(dt, speed) /\ speed >= 0)
             => LET d == destination_dist - speed * dt
                IN  /\ 0 < destination_dist' /\ destination_dist' <= TOTAL_DIST
                    /\ destination_dist' = IF d <= 0 THEN TOTAL_DIST ELSE d]_vars

\* C22 witness: three updates at 25 m/s and 0.5 s have each subtracted
\* 12.5 m from the 50 m that were left; the next one reaches exactly 0.
C22_Witness ==
    /\ destination_dist = Meters(50) - 3 * Mps(25)
    /\ destination_dist - Mps(25) = 0
    /\ inputs = 3

\* the local vehicle stands in the service lane, braking
Parked ==
    /\ vehicles[MyId].lane = SERVICE_LANE_INDEX
    /\ vehicles[MyId].target_speed = 0
    /\ vehicles[MyId].braking
    /\ vehicles[MyId].speed = 0

\* C23: with the impairment signal true on every frame (and no manual lane
\* change), a frame moves the local vehicle by at most one lane, toward the
\* service lane, only when the cooldown has run out and with the cooldown
\* reset to 1.0; the vehicle eventually is in the service lane with
\* target_speed 0, braking and speed 0, and stays so.
C23_ImpairedParks ==
    /\ [][(Frames /\ manual_drowsy
             /\ vehicles'[MyId].lane # vehicles[MyId].lane)
          => (/\ vehicles'[MyId].lane = vehicles[MyId].lane + 1
              /\ vehicles[MyId].lane_change_cooldown - (now' - now) <= 0
              /\ vehicles'[MyId].lane_change_cooldown = Seconds(1))]_vars
    /\ []manual_drowsy => <>[]Parked

\* C24: in an update_physics of a non-impaired vehicle the yield rule fires
\* when an ambulance is behind, the vehicle is no emergency vehicle and the
\* decremented cooldown has run out.  When it fires the lane changes by
\* exactly one, by +1 when lane < LANE_COUNT - 1 and by -1 otherwise, the
\* cooldown is reset to 2.0 and target_speed is left as it was; when it does
\* not fire the lane stays and the cooldown only loses dt, so that two yield
\* lane changes are at least 2.0 s of tick time apart.
C24_YieldOneLane ==
    [][(DecideStep /\ ~ml.is_drowsy)
        => LET a == vehicles[ml.self]
               b == vehicles'[ml.self]
               fires == /\ ml.ambulance_behind
                        /\ ~a.is_emergency
                        /\ a.lane_change_cooldown - ml.dt <= 0
           IN  IF fires
               THEN /\ b.lane = IF a.lane < LANE_COUNT - 1
                                THEN a.lane + 1 ELSE a.lane - 1
                    /\ b.lane_change_cooldown = Seconds(2)
                    /\ b.target_speed = a.target_speed
               ELSE /\ b.lane = a.lane
                    /\ b.lane_change_cooldown = a.lane_change_cooldown - ml.dt]_vars

\* C24 witness: the local vehicle has just yielded out of the service lane,
\* to the left, to the emergency vehicle CAR2 behind it there.
C24_Witness ==
    /\ pc_main = "l934"
    /\ ~manual_drowsy
    /\ PeerId \in Ids
    /\ vehicles[PeerId].lane = SERVICE_LANE_INDEX
    /\ vehicles[PeerId].is_emergency
    /\ vehicles[MyId].lane = SERVICE_LANE_INDEX - 1
    /\ vehicles[MyId].lane_change_cooldown = Seconds(2)

Reported(v) == <<v.x, v.lane, v.speed, v.is_emergency, v.last_update>>

\* C26: no step of the tick (physics, visuals, broadcast, navigation update,
\* eviction) and no UI handler changes the position, lane, speed, emergency
\* flag or last_update of a remote entry that is not the owned ambulance;
\* these change only in a step of on_message applying a payload with that id.
C26_TickKeepsRemoteState ==
    [][\A k \in Ids \cap DOMAIN vehicles' :
          LET a == vehicles[k]
              b == vehicles'[k]
          IN  (/\ IsVehicle(a) /\ IsVehicle(b)
               /\ a.origin = "remote" /\ b.origin = "remote"
               /\ ~(k = AmbId /\ i_own_ambulance)
               /\ Reported(a) # Reported(b))
              => (pc_net # "idle" /\ pc_net' # pc_net /\ msg.id = k)]_vars

\* C26 witness: a whole tick has run over the entry of CAR2 received at time
\* 0, and the entry is as it was received.
C26_Witness ==
    /\ pc_main = "top" /\ pc_net = "idle" /\ now > 0
    /\ PeerId \in Ids /\ IsVehicle(vehicles[PeerId])
    /\ vehicles[PeerId].origin = "remote"
    /\ Reported(vehicles[PeerId]) = <<Meters(150), 1, Mps(20), FALSE, 0>>

\* a step that changes the active key sets old_route_key to the key that was
\* active before it
OldKeyFollowsChange ==
    current_route_key' # current_route_key => old_route_key' = current_route_key

\* a step that keeps the active key keeps old_route_key
OldKeyKept ==
    current_route_key' = current_route_key => old_route_key' = old_route_key

\* C27 as stated: old_route_key is written only by a re-selection whose new
\* key differs from the active key, and is then the key that was active
\* before; a re-selection that keeps the active key leaves old_route_key and
\* current_route_key as they were.
C27_OldKeyOnlyOnChange ==
    [][OldKeyFollowsChange /\ OldKeyKept]_vars

\* C27 amended: outside reset_obstacles, old_route_key is written only by a
\* re-selection whose new key differs from the active key, and is then the
\* key that was active before, and a re-selection that keeps the active key
\* leaves both keys as they were; reset_obstacles clears old_route_key before
\* it re-selects, so a reset that keeps the active key leaves it empty.
C27_OldKeyOutsideReset ==
    [][IF reset_obstacles
       THEN current_route_key' = current_route_key => old_route_key' = NoRoute
       ELSE OldKeyFollowsChange /\ OldKeyKept]_vars

\* C27 witness: top and main are blocked by two obstacle reports, of which
\* one changed the active key to bottom and put main in old_route_key and
\* the other kept both.
C27_Witness ==
    /\ Len(obstacles) = 2
    /\ Blocked("top") /\ Blocked("main") /\ ~Blocked("bottom")
    /\ current_route_key = "bottom"
    /\ old_route_key = "main"

\* line 950 has just published the local vehicle's record
BroadcastStep == pc_main = "l950" /\ pc_main' = "l953"

\* C28: the local vehicle's drowsy_alert is latched.  An update_physics run
\* with the impairment signal true sets it; no step of the main loop, of a UI
\* handler or of on_message clears it; and every broadcast carries the
\* flag's value as "drw" - so that it stays true, in the state and in the
\* payloads, after the signal has returned to false.
C28_DrowsyAlertLatched ==
    [][/\ (DecideMine /\ ml.is_drowsy) => vehicles'[MyId].drowsy_alert
       /\ vehicles[MyId].drowsy_alert => vehicles'[MyId].drowsy_alert
       /\ BroadcastStep
            => /\ published'.id = MyId
               /\ published'.drw = vehicles[MyId].drowsy_alert]_vars

\* C28 witness: the signal is false again, a tick has run without it, and
\* the broadcast of that tick carries the impaired flag.
C28_Witness ==
    /\ pc_main = "l953"
    /\ ~manual_drowsy /\ ~ml.is_drowsy
    /\ vehicles[MyId].drowsy_alert
    /\ published.id = MyId /\ published.drw

\* lines 715-716 have just stored the new ambulance
SpawnStep == pc_main = "l715" /\ pc_main' = "l717"

\* C29: spawn_ambulance_click never replaces an AMB-1 entry that is in the
\* registry (its own or one learned from a peer): it stores its ambulance
\* only where there is none.  i_own_ambulance is true only while the AMB-1
\* entry of the registry is the one this process created, and once true it
\* is never cleared.
C29_SpawnNeverTakesOver ==
    [][/\ SpawnStep => AmbId \notin Ids
       /\ i_own_ambulance => i_own_ambulance'
       /\ i_own_ambulance'
            => /\ AmbId \in DOMAIN vehicles'
               /\ IsVehicle(vehicles'[AmbId])
               /\ vehicles'[AmbId].origin = "local"]_vars

\* the vehicle a peer builds from the record of v, its constructor drawing
\* the position x0 and the speed s0
RoundTrip(v, x0, s0) == from_json(to_json(v), x0, s0, now)

\* C30: for every vehicle v of the registry, from_json(to_json(v)) is a
\* vehicle with the id, emergency flag, lane, position, speed, drowsy_alert
\* and braking of v, and with visual_lane equal to its lane, whatever the
\* constructor draws.
C30_RoundTrip ==
    \A k \in Ids :
        IsVehicle(vehicles[k])
        => \A x0 \in InitPositions, s0 \in InitSpeeds :
              LET v == vehicles[k]
                  w == RoundTrip(v, x0, s0)
              IN  /\ IsVehicle(w)
                  /\ w.id = v.id /\ w.is_emergency = v.is_emergency
                  /\ w.lane = v.lane /\ w.x = v.x /\ w.speed = v.speed
                  /\ w.drowsy_alert = v.drowsy_alert /\ w.braking = v.braking
                  /\ w.visual_lane = w.lane * VisScale

\* C30 witness: the local vehicle, impaired, at a speed other than its
\* target, away from its start and between two lanes on the screen, has
\* been broadcast; the vehicle built from the record is in the lane itself.
C30_Witness ==
    LET v == vehicles[MyId]
    IN  /\ published = to_json(v)
        /\ v.drowsy_alert /\ v.x > 0 /\ v.speed # v.target_speed
        /\ v.visual_lane # v.lane * VisScale
        /\ \E x0 \in InitPositions, s0 \in InitSpeeds :
              /\ x0 # v.x /\ s0 # v.speed
              /\ RoundTrip(v, x0, s0).visual_lane = v.lane * VisScale
              /\ RoundTrip(v, x0, s0).x = v.x

====
